---- MODULE Spec2Model ----
(***************************************************************************)
(* querychat (pkg-py/src/querychat/querychat.py): the session state that   *)
(* mod_server keeps (current_query, current_title, the filtered_df         *)
(* reactive calc), the two tools registered with the agent                 *)
(* (update_dashboard, query), the readers handed out through QueryChat,    *)
(* the table-name validation of init, the greeting and the turns of the    *)
(* chat, and sessions side by side.                                        *)
(*                                                                         *)
(* Specifications:                                                         *)
(*   Spec          one session: tool calls stepping from await to await,   *)
(*                 readers and backend changes interleaved between steps   *)
(*   CancelSpec    the same tools, with turns cancelled at their awaits    *)
(*   InitSpec      init(data_source, table_name) over bounded table names  *)
(*   HtmlSpec      df_to_html over bounded frames                          *)
(*   ChatSpec      greet_on_startup, on_user_submit, the agent's stream    *)
(*   SessionsSpec  two mod_server sessions of one config                   *)
(***************************************************************************)
EXTENDS Integers, Sequences, FiniteSets

VARIABLES
    current_query,    \* reactive.value("")                      (line 448)
    current_title,    \* reactive.value(None)                    (line 447)
    calc_valid,       \* filtered_df holds a value that is not invalidated
    calc_value,       \* the value (or error) filtered_df last computed
    db,               \* version of the backend's data
    up,               \* whether the backend answers
    pc,               \* position of the tool coroutine in flight
    tool,             \* name of the tool called last
    arg_query,        \* its query argument
    arg_title,        \* its title argument (update_dashboard)
    arg_same,         \* the query argument is the very str object stored
    pre_query,        \* current_query when the call started
    pre_title,        \* current_title when the call started
    emitted,          \* what the call appended to the chat transcript
    outcome,          \* how the call ended
    executed,         \* data_source.execute_query calls the call has made
    last_ok_query,    \* query argument of the last update_dashboard that returned
    last_ok_title,    \* title argument of the last update_dashboard that returned
    last_ok_same,     \* whether its query argument was the str object stored
    last_set_title,   \* the last title other than None passed to such a call
    df_reads,         \* df() reads since that call (or since session start)
    prev_df,          \* what the previous df() read returned
    obs,              \* what a reader saw, when the last step was a read
    table_name,       \* init's table_name argument
    init_args,        \* init's arguments other than table_name
    init_prompt,      \* the system_prompt of the config init returned
    init_log,         \* the backend accesses init made, in order
    init_result,      \* how init ended
    frame,            \* the frame handed to df_to_html
    html,             \* what df_to_html returned for it
    greeting,         \* querychat_config.greeting
    greeted,          \* greet_on_startup has run
    transcript,       \* the chat UI's transcript of the session
    agent_calls,      \* the prompts passed to chat.stream_async, in order
    stream,           \* fragments the agent produced that are not appended yet
    agent,            \* whether the agent is generating a reply
    ev,               \* events (fragments, tool calls) the agent produced so far
    tool_ev,          \* the event number of the tool call made last
    sess,             \* per session: the reactive values and the tool in flight
    chats,            \* per chat object: the session whose tools it holds
    actor,            \* the session whose operation ran last
    export_source,    \* the data source the QueryChat object holds, for to_ibis
    export,           \* what the last to_ibis(conn) did and how it ended
    setup,            \* how far the body of mod_server has run
    registered        \* the tools registered on the session's chat, in order

sessionVars == <<current_query, current_title, calc_valid, calc_value>>
backendVars == <<db, up>>
callVars    == <<pc, tool, arg_query, arg_title, arg_same, pre_query, pre_title,
                 emitted, outcome, executed>>
historyVars == <<last_ok_query, last_ok_title, last_ok_same, last_set_title>>
readVars    == <<df_reads, prev_df>>
initVars    == <<table_name, init_args, init_prompt, init_log, init_result>>
renderVars  == <<frame, html>>
chatVars    == <<greeting, greeted, transcript, agent_calls, stream, agent, ev,
                 tool_ev>>
multiVars   == <<sess, chats, actor>>
exportVars  == <<export_source, export>>
setupVars   == <<setup, registered>>
vars == <<sessionVars, backendVars, callVars, historyVars, readVars, obs, initVars,
          renderVars, exportVars, setupVars, chatVars, multiVars>>

----------------------------------------------------------------------------
(* Bounds *)

MaxVersion == 1      \* the backend's data changes at most this many times
MaxNameLen == 3      \* table names of at most this many characters
MaxReads   == 2      \* df_reads counts up to this and stays there
MaxFrameRows == 7    \* frames handed to df_to_html have at most this many rows
MaxTurns   == 1      \* the user submits at most this many messages
MaxEvents  == 3      \* the agent produces at most this many events in a session

(* Program constants *)

MAXROWS == 5         \* query() renders df_to_html(result_df, maxrows=5)
BaseRows == 5        \* rows of the table in data version 0

----------------------------------------------------------------------------
(* Values *)

None == "None"                      \* Python's None (never a str of the model)

Q_ALL  == "SELECT * FROM T"
Q_SOME == "SELECT * FROM T WHERE id > 3"
Q_BAD  == "SELECT * FROM T WHERE bogus_col = 1"

SqlTexts  == {"", Q_ALL, Q_SOME, Q_BAD}
QueryArgs == SqlTexts \cup {None}    \* what an agent can pass as query
TitleArgs == {"Survivors", "Everyone", None}

Ok(rows) == [ok |-> TRUE,  rows |-> rows, msg |-> ""]
Err(m)   == [ok |-> FALSE, rows |-> {},   msg |-> m]

----------------------------------------------------------------------------
(* The data source (querychat/datasource.py): one table T whose rows are   *)
(* numbered 1..n; a data version adds a row.                               *)

Table(d) == 1 .. (BaseRows + d)

\* DataSource.get_data(): the unfiltered table
get_data(d, u) ==
    IF u THEN Ok(Table(d)) ELSE Err("OperationalError: backend unavailable")

\* DataSource.execute_query(query): the rows, or the backend's error.  A
\* query that is no str, and an empty statement, yield no result set.
execute_query(q, d, u) ==
    IF q = None THEN Err("TypeError: query must be a string")
    ELSE IF ~u THEN Err("OperationalError: backend unavailable")
    ELSE IF q = "" THEN Err("InvalidInputException: no open result set")
    ELSE IF q = Q_ALL THEN Ok(Table(d))
    ELSE IF q = Q_SOME THEN Ok({r \in Table(d) : r > 3})
    ELSE Err("Binder Error: column bogus_col not found")

----------------------------------------------------------------------------
(* reactive.value and reactive.calc as mod_server uses them *)

\* variant: a set never invalidates what reads the value
SetNeverInvalidates(same) == FALSE

\* reactive.value.set(value) leaves the value alone, and invalidates nothing,
\* when it is handed the object it already holds; otherwise it stores the
\* value and invalidates filtered_df, which reads current_query.
SetInvalidates(same) == ~same

\* variant: the body runs the query whatever current_query is
filtered_df_body_always_query(q, d, u) ==
    [src |-> "execute_query", sql |-> q, res |-> execute_query(q, d, u)]

\* variant: a failing query is hidden behind an empty frame
filtered_df_body_hides_error(q, d, u) ==
    IF q = ""
    THEN [src |-> "get_data", sql |-> "", res |-> get_data(d, u)]
    ELSE [src |-> "execute_query", sql |-> q,
          res |-> IF execute_query(q, d, u).ok
                  THEN execute_query(q, d, u) ELSE Ok({})]

\* the body of filtered_df: which call it makes, and what comes back
filtered_df_body(q, d, u) ==
    IF q = ""
    THEN [src |-> "get_data", sql |-> "", res |-> get_data(d, u)]
    ELSE [src |-> "execute_query", sql |-> q, res |-> execute_query(q, d, u)]

NoValue == [src |-> "none", sql |-> "", res |-> Err("")]

\* variant: no cache: the body runs on every read
filtered_df_always_recomputes == TRUE

\* @reactive.calc: run the body when there is no valid value, else hand out
\* the value (or the error) computed last
filtered_df_recomputes == ~calc_valid

filtered_df ==
    IF filtered_df_recomputes
    THEN filtered_df_body(current_query, db, up)
    ELSE calc_value

----------------------------------------------------------------------------
(* The chat transcript *)

NoNotice == [first |-> 0, total |-> 0]

SqlBlock(q)    == [kind |-> "sql",   text |-> q, rows |-> {}, notice |-> NoNotice]
ErrorNotice(m) == [kind |-> "error", text |-> m, rows |-> {}, notice |-> NoNotice]

\* the first n rows of a frame
head(rows, n) == {r \in rows : Cardinality({s \in rows : s < r}) < n}

\* variant: the note is added whenever the frame fills the cap
df_to_html_notes_at_cap(rows, maxrows) ==
    LET df_short == head(rows, maxrows)
    IN  [kind   |-> "table", text |-> "", rows |-> df_short,
         notice |-> IF Cardinality(rows) >= maxrows
                    THEN [first |-> maxrows, total |-> Cardinality(rows)]
                    ELSE NoNotice]

\* df_to_html(df, maxrows): the table of the first maxrows rows, and the note
\* when the short frame is not as long as the whole
df_to_html(rows, maxrows) ==
    LET df_short == head(rows, maxrows)
    IN  [kind   |-> "table", text |-> "", rows |-> df_short,
         notice |-> IF Cardinality(df_short) # Cardinality(rows)
                    THEN [first |-> maxrows, total |-> Cardinality(rows)]
                    ELSE NoNotice]

\* append_output(text)
append_output(text) == emitted' = Append(emitted, text)

----------------------------------------------------------------------------
(* Session start: the state mod_server sets up (lines 446-448) *)

NoObs     == [kind |-> "none", sql |-> "", title |-> None, df |-> NoValue,
              calls |-> {}, nth |-> 0, prev |-> NoValue, key |-> "",
              item |-> None]
NoOutcome == [kind |-> "none", msg |-> "", value |-> {}]
Running   == [kind |-> "running", msg |-> "", value |-> {}]

SessionInit ==
    /\ current_query = ""
    /\ current_title = None
    /\ calc_valid = FALSE
    /\ calc_value = NoValue
    /\ db = 0
    /\ up = TRUE
    /\ pc = "idle"
    /\ tool = "none"
    /\ arg_query = None
    /\ arg_title = None
    /\ arg_same = FALSE
    /\ pre_query = ""
    /\ pre_title = None
    /\ emitted = <<>>
    /\ outcome = NoOutcome
    /\ executed = 0
    /\ last_ok_query = ""
    /\ last_ok_title = None
    /\ last_ok_same = FALSE
    /\ last_set_title = None
    /\ df_reads = 0
    /\ prev_df = NoValue
    /\ obs = NoObs

----------------------------------------------------------------------------
(* update_dashboard(query, title), lines 463-489.  The coroutine can be    *)
(* suspended at its awaits (476, 483); between two awaits it runs alone.   *)

\* variant: the call runs the query without showing its SQL first
update_dashboard_call_silent(q, t, same) ==
    /\ pc = "idle"
    /\ same => (q # None /\ q = current_query)
    /\ tool' = "update_dashboard"
    /\ arg_query' = q
    /\ arg_title' = t
    /\ arg_same' = same
    /\ pre_query' = current_query
    /\ pre_title' = current_title
    /\ emitted' = <<>>
    /\ outcome' = Running
    /\ executed' = 0
    /\ pc' = "update_dashboard_try"
    /\ obs' = NoObs
    /\ UNCHANGED <<sessionVars, backendVars, historyVars, readVars, initVars>>

\* variant: the call sets current_query before its first await
update_dashboard_call_sets_query(q, t, same) ==
    /\ pc = "idle"
    /\ same => (q # None /\ q = current_query)
    /\ tool' = "update_dashboard"
    /\ arg_query' = q
    /\ arg_title' = t
    /\ arg_same' = same
    /\ pre_query' = current_query
    /\ pre_title' = current_title
    /\ emitted' = <<SqlBlock(q)>>
    /\ outcome' = Running
    /\ executed' = 0
    /\ pc' = "update_dashboard_try"
    /\ obs' = NoObs
    /\ current_query' = IF q # None THEN q ELSE current_query
    /\ calc_valid' = FALSE
    /\ UNCHANGED <<current_title, calc_value, backendVars, historyVars,
                   readVars, initVars>>

\* the call, up to the await of line 476
update_dashboard_call(q, t, same) ==
    /\ pc = "idle"
    /\ same => (q # None /\ q = current_query)
    /\ tool' = "update_dashboard"
    /\ arg_query' = q
    /\ arg_title' = t
    /\ arg_same' = same
    /\ pre_query' = current_query
    /\ pre_title' = current_title
    /\ emitted' = <<SqlBlock(q)>>
    /\ outcome' = Running
    /\ executed' = 0
    /\ pc' = "update_dashboard_try"
    /\ obs' = NoObs
    /\ UNCHANGED <<sessionVars, backendVars, historyVars, readVars, initVars>>

\* variant: the title is set whatever it is, None too
update_dashboard_set_unguarded ==
    /\ current_query' = IF arg_query # None THEN arg_query ELSE current_query
    /\ calc_valid' = IF arg_query # None /\ SetInvalidates(arg_same)
                     THEN FALSE ELSE calc_valid
    /\ current_title' = arg_title
    /\ UNCHANGED calc_value

\* variant: a torn write: the query is set, the title is left for later
update_dashboard_set_torn ==
    /\ current_query' = IF arg_query # None THEN arg_query ELSE current_query
    /\ calc_valid' = IF arg_query # None /\ SetInvalidates(arg_same)
                     THEN FALSE ELSE calc_valid
    /\ UNCHANGED <<current_title, calc_value>>

\* lines 486-489: both reactive values are set with no await in between
update_dashboard_set ==
    /\ current_query' = IF arg_query # None THEN arg_query ELSE current_query
    /\ calc_valid' = IF arg_query # None /\ SetInvalidates(arg_same)
                     THEN FALSE ELSE calc_valid
    /\ current_title' = IF arg_title # None THEN arg_title ELSE current_title
    /\ UNCHANGED calc_value

\* variant: the except branch sets the state all the same
update_dashboard_except_sets(e) ==
    /\ append_output(ErrorNotice(e.msg))
    /\ outcome' = [kind |-> "running", msg |-> e.msg, value |-> {}]
    /\ pc' = "update_dashboard_raise"
    /\ current_query' = IF arg_query # None THEN arg_query ELSE current_query
    /\ current_title' = IF arg_title # None THEN arg_title ELSE current_title
    /\ calc_valid' = FALSE
    /\ UNCHANGED <<calc_value, historyVars, readVars>>

\* variant: the except branch clears the dashboard's filter
update_dashboard_except_clears(e) ==
    /\ append_output(ErrorNotice(e.msg))
    /\ outcome' = [kind |-> "running", msg |-> e.msg, value |-> {}]
    /\ pc' = "update_dashboard_raise"
    /\ current_query' = ""
    /\ current_title' = None
    /\ calc_valid' = FALSE
    /\ UNCHANGED <<calc_value, historyVars, readVars>>

\* variant: the except branch shows the notice and returns normally
update_dashboard_except_swallows(e) ==
    /\ append_output(ErrorNotice(e.msg))
    /\ outcome' = [kind |-> "returned", msg |-> "", value |-> {}]
    /\ pc' = "idle"
    /\ UNCHANGED <<sessionVars, historyVars, readVars>>

\* lines 481-483: the except branch, up to the await of line 483
update_dashboard_except(e) ==
    /\ append_output(ErrorNotice(e.msg))
    /\ outcome' = [kind |-> "running", msg |-> e.msg, value |-> {}]
    /\ pc' = "update_dashboard_raise"
    /\ UNCHANGED <<sessionVars, historyVars, readVars>>

\* variant: the result of the validating run is kept as the value of df()
update_dashboard_try_keeps_result ==
    /\ pc = "update_dashboard_try"
    /\ LET r == execute_query(arg_query, db, up)
       IN  IF r.ok
           THEN /\ current_query' = arg_query
                /\ current_title' =
                       IF arg_title # None THEN arg_title ELSE current_title
                /\ calc_value' = [src |-> "execute_query", sql |-> arg_query,
                                  res |-> r]
                /\ calc_valid' = TRUE
                /\ last_ok_query' = arg_query
                /\ last_ok_title' = arg_title
                /\ last_ok_same' = arg_same
                /\ last_set_title' =
                       IF arg_title # None THEN arg_title ELSE last_set_title
                /\ df_reads' = 0
                /\ outcome' = [kind |-> "returned", msg |-> "", value |-> {}]
                /\ pc' = "idle"
                /\ UNCHANGED <<emitted, prev_df>>
           ELSE update_dashboard_except(r)
    /\ executed' = executed + 1
    /\ obs' = NoObs
    /\ UNCHANGED <<backendVars, tool, arg_query, arg_title, arg_same,
                   pre_query, pre_title, initVars>>

\* lines 478-489: try the query; on an error go to the except branch, else
\* set the state and return
update_dashboard_try ==
    /\ pc = "update_dashboard_try"
    /\ LET r == execute_query(arg_query, db, up)
       IN  IF r.ok
           THEN /\ update_dashboard_set
                /\ last_ok_query' = arg_query
                /\ last_ok_title' = arg_title
                /\ last_ok_same' = arg_same
                /\ last_set_title' =
                       IF arg_title # None THEN arg_title ELSE last_set_title
                /\ df_reads' = 0
                /\ outcome' = [kind |-> "returned", msg |-> "", value |-> {}]
                /\ pc' = "idle"
                /\ UNCHANGED <<emitted, prev_df>>
           ELSE update_dashboard_except(r)
    /\ executed' = executed + 1
    /\ obs' = NoObs
    /\ UNCHANGED <<backendVars, tool, arg_query, arg_title, arg_same,
                   pre_query, pre_title, initVars>>

\* variant: the failed call never gets back to its caller
update_dashboard_raise_hangs ==
    /\ pc = "update_dashboard_raise"
    /\ outcome' = [outcome EXCEPT !.kind = "raised"]
    /\ pc' = pc
    /\ obs' = NoObs
    /\ UNCHANGED <<sessionVars, backendVars, tool, arg_query, arg_title, arg_same,
                   pre_query, pre_title, emitted, executed, historyVars, readVars,
                   initVars>>

\* line 484: raise e
update_dashboard_raise ==
    /\ pc = "update_dashboard_raise"
    /\ outcome' = [outcome EXCEPT !.kind = "raised"]
    /\ pc' = "idle"
    /\ obs' = NoObs
    /\ UNCHANGED <<sessionVars, backendVars, tool, arg_query, arg_title, arg_same,
                   pre_query, pre_title, emitted, executed, historyVars, readVars,
                   initVars>>

----------------------------------------------------------------------------
(* query(query), lines 492-514; awaits at 502, 508 and 512 *)

\* the call, up to the await of line 502
query_call(q) ==
    /\ pc = "idle"
    /\ tool' = "query"
    /\ arg_query' = q
    /\ arg_title' = None
    /\ arg_same' = FALSE
    /\ pre_query' = current_query
    /\ pre_title' = current_title
    /\ emitted' = <<SqlBlock(q)>>
    /\ outcome' = Running
    /\ executed' = 0
    /\ pc' = "query_try"
    /\ obs' = NoObs
    /\ UNCHANGED <<sessionVars, backendVars, historyVars, readVars, initVars>>

\* variant: the preview sets current_query as update_dashboard does
query_try_sets ==
    /\ pc = "query_try"
    /\ LET result_df == execute_query(arg_query, db, up)
       IN  IF result_df.ok
           THEN /\ append_output(df_to_html(result_df.rows, MAXROWS))
                /\ outcome' = [kind |-> "running", msg |-> "",
                               value |-> result_df.rows]
                /\ pc' = "query_return"
                /\ current_query' = arg_query
                /\ calc_valid' = FALSE
                /\ UNCHANGED <<current_title, calc_value>>
           ELSE /\ append_output(ErrorNotice(result_df.msg))
                /\ outcome' = [kind |-> "running", msg |-> result_df.msg,
                               value |-> {}]
                /\ pc' = "query_raise"
                /\ UNCHANGED sessionVars
    /\ executed' = executed + 1
    /\ obs' = NoObs
    /\ UNCHANGED <<backendVars, tool, arg_query, arg_title, arg_same,
                   pre_query, pre_title, historyVars, readVars, initVars>>

\* lines 504-512: run the query; on an error emit the notice (await 508),
\* else render at most 5 rows into the transcript (await 512)
query_try ==
    /\ pc = "query_try"
    /\ LET result_df == execute_query(arg_query, db, up)
       IN  IF result_df.ok
           THEN /\ append_output(df_to_html(result_df.rows, MAXROWS))
                /\ outcome' = [kind |-> "running", msg |-> "",
                               value |-> result_df.rows]
                /\ pc' = "query_return"
           ELSE /\ append_output(ErrorNotice(result_df.msg))
                /\ outcome' = [kind |-> "running", msg |-> result_df.msg,
                               value |-> {}]
                /\ pc' = "query_raise"
    /\ executed' = executed + 1
    /\ obs' = NoObs
    /\ UNCHANGED <<sessionVars, backendVars, tool, arg_query, arg_title, arg_same,
                   pre_query, pre_title, historyVars, readVars, initVars>>

\* result_df.to_json(orient="records"): one record per row of the frame
to_json(rows) == {[id |-> r] : r \in rows}

\* variant: the return value is cut to the rows that were rendered
query_return_head ==
    /\ pc = "query_return"
    /\ outcome' = [outcome EXCEPT !.kind = "returned",
                                  !.value = to_json(head(outcome.value, MAXROWS))]
    /\ pc' = "idle"
    /\ obs' = NoObs
    /\ UNCHANGED <<sessionVars, backendVars, tool, arg_query, arg_title, arg_same,
                   pre_query, pre_title, emitted, executed, historyVars, readVars,
                   initVars>>

\* line 514: return result_df.to_json(orient="records"), every row a record
query_return ==
    /\ pc = "query_return"
    /\ outcome' = [outcome EXCEPT !.kind = "returned",
                                  !.value = to_json(outcome.value)]
    /\ pc' = "idle"
    /\ obs' = NoObs
    /\ UNCHANGED <<sessionVars, backendVars, tool, arg_query, arg_title, arg_same,
                   pre_query, pre_title, emitted, executed, historyVars, readVars,
                   initVars>>

\* line 509: raise e
query_raise ==
    /\ pc = "query_raise"
    /\ outcome' = [outcome EXCEPT !.kind = "raised"]
    /\ pc' = "idle"
    /\ obs' = NoObs
    /\ UNCHANGED <<sessionVars, backendVars, tool, arg_query, arg_title, arg_same,
                   pre_query, pre_title, emitted, executed, historyVars, readVars,
                   initVars>>

----------------------------------------------------------------------------
(* Cancellation of the turn that runs the tool.  A suspended coroutine is  *)
(* cancelled at the await it waits in (476, 483, 502, 508, 512): a         *)
(* CancelledError is raised there, which `except Exception` does not catch *)
(* and which ends the call.  The transcript write the coroutine was        *)
(* waiting in has either reached the transcript or not.                    *)

\* the CancelledError raised at the await, ending the call
cancel ==
    /\ pc # "idle"
    /\ \E landed \in BOOLEAN :
           emitted' = IF landed THEN emitted
                      ELSE SubSeq(emitted, 1, Len(emitted) - 1)
    /\ outcome' = [kind |-> "cancelled", msg |-> "", value |-> {}]
    /\ pc' = "idle"
    /\ obs' = NoObs
    /\ UNCHANGED <<sessionVars, backendVars, tool, arg_query, arg_title, arg_same,
                   pre_query, pre_title, executed, historyVars, readVars, initVars>>

----------------------------------------------------------------------------
(* The readers mod_server returns: QueryChat(chat, current_query.get,      *)
(* current_title.get, filtered_df), line 555.  A reader is synchronous     *)
(* code of the host application and runs between two steps of a tool.      *)

\* QueryChat.sql() and QueryChat.title() (lines 79-101), read by one reader
ReadState ==
    /\ obs' = [NoObs EXCEPT !.kind = "state",
                            !.sql = current_query, !.title = current_title]
    /\ UNCHANGED <<sessionVars, backendVars, callVars, historyVars, readVars,
                   initVars>>

\* QueryChat.df() (lines 103-113): reads filtered_df
ReadDf ==
    /\ LET v == filtered_df
       IN  /\ obs' = [NoObs EXCEPT !.kind = "df", !.sql = current_query,
                                   !.title = current_title, !.df = v,
                                   !.calls = IF filtered_df_recomputes
                                             THEN {v.src} ELSE {},
                                   !.nth = df_reads, !.prev = prev_df]
           /\ calc_value' = v
           /\ prev_df' = v
    /\ calc_valid' = TRUE
    /\ df_reads' = IF df_reads < MaxReads THEN df_reads + 1 ELSE df_reads
    /\ UNCHANGED <<current_query, current_title, backendVars, callVars,
                   historyVars, initVars>>

----------------------------------------------------------------------------
(* The backend, outside the program *)

\* the table's data changes
BackendChange ==
    /\ db < MaxVersion
    /\ db' = db + 1
    /\ obs' = NoObs
    /\ UNCHANGED <<sessionVars, up, callVars, historyVars, readVars, initVars>>

\* the backend stops or starts answering
BackendFlip ==
    /\ up' = ~up
    /\ obs' = NoObs
    /\ UNCHANGED <<sessionVars, db, callVars, historyVars, readVars, initVars>>

----------------------------------------------------------------------------
(* init(data_source, table_name), lines 295-299 *)

Letters  == {"a", "Z"}
Digits   == {"7"}
NL       == "\n"
Alphabet == Letters \cup Digits \cup {"_", "-", NL}

Names == UNION {[1..n -> Alphabet] : n \in 0..MaxNameLen}

IsWordChar(c) == c \in Letters \cup Digits \cup {"_"}

\* Python's $ (no re.MULTILINE): the end of the string, or just before a
\* newline that is the string's last character.  i is the next position.
DollarAt(s, i) == i = Len(s) + 1 \/ (i = Len(s) /\ s[i] = NL)

\* re.match(r"^[a-zA-Z][a-zA-Z0-9_]*$", table_name)
re_match(s) ==
    /\ Len(s) >= 1
    /\ s[1] \in Letters
    /\ \E k \in 1..Len(s) :
          /\ \A j \in 2..k : IsWordChar(s[j])
          /\ DollarAt(s, k + 1)

\* what init can be given as data_source and as system_prompt_override
DataSources == {"frame", "engine"}
Overrides   == {None, "", "You are a data analyst."}

\* lines 301-308: the data source object; a frame is converted first
data_source_obj(source) ==
    IF source = "engine"
    THEN <<"SQLAlchemySource">>
    ELSE <<"to_pandas", "DataFrameSource">>

\* lines 322-331: system_prompt_override or system_prompt(data_source_obj, ...),
\* and system_prompt asks the data source for its schema (line 190)
system_prompt_accesses(override) ==
    IF override \in {None, ""} THEN <<"get_schema">> ELSE <<>>

\* what init can be given as data_description, extra_instructions and
\* prompt_template
Descriptions == {None, "Passengers of the Titanic"}
Instructions == {None, "Answer briefly."}
Templates    == {None, "custom template"}

InitArgs ==
    [data_source : DataSources, system_prompt_override : Overrides,
     data_description : Descriptions, extra_instructions : Instructions,
     prompt_template : Templates]

DefaultArgs ==
    [data_source |-> "frame", system_prompt_override |-> None,
     data_description |-> None, extra_instructions |-> None,
     prompt_template |-> None]

NoPrompt == [text |-> "", rendered |-> FALSE, data_description |-> None,
             extra_instructions |-> None, prompt_template |-> None]

\* a system prompt that is the given text and nothing else
PromptText(text) == [NoPrompt EXCEPT !.text = text]

\* system_prompt(...), lines 129-196: the template rendered with the schema,
\* the data description and the extra instructions
system_prompt(description, instructions, template) ==
    [text |-> "", rendered |-> TRUE, data_description |-> description,
     extra_instructions |-> instructions, prompt_template |-> template]

\* init: the validation of lines 295-299 first, a ValueError ending the
\* call there; then the data source, the system prompt and the config
init(name, args) ==
    /\ init_result = "not called"
    /\ table_name' = name
    /\ init_args' = args
    /\ IF ~re_match(name)
       THEN /\ init_log' = <<>>
            /\ init_prompt' = NoPrompt
            /\ init_result' = "ValueError"
       ELSE /\ init_log' = data_source_obj(args.data_source)
                               \o system_prompt_accesses(args.system_prompt_override)
            \* system_prompt_override or system_prompt(...), lines 325-331
            /\ init_prompt' =
                   IF args.system_prompt_override \in {None, ""}
                   THEN system_prompt(args.data_description,
                                      args.extra_instructions,
                                      args.prompt_template)
                   ELSE PromptText(args.system_prompt_override)
            /\ init_result' = "QueryChatConfig"
    /\ UNCHANGED <<sessionVars, backendVars, callVars, historyVars, readVars, obs,
                   renderVars, exportVars, setupVars, chatVars, multiVars>>

----------------------------------------------------------------------------
(* df_to_html(df, maxrows=5) on its own, lines 199-233 *)

Frames == SUBSET (1 .. MaxFrameRows)
NoHtml == [kind |-> "none", text |-> "", rows |-> {}, notice |-> NoNotice]

RenderIdle ==
    /\ frame = {}
    /\ html = NoHtml

\* tbl_html = df_to_html(result_df, maxrows=5), line 511
render ==
    /\ html = NoHtml
    /\ html' = df_to_html(frame, MAXROWS)
    /\ UNCHANGED <<frame, sessionVars, backendVars, callVars, historyVars,
                   readVars, obs, initVars, exportVars, setupVars, chatVars, multiVars>>

----------------------------------------------------------------------------
(* QueryChat.to_ibis(conn): the current result handed to an ibis           *)
(* connection.  The method is not in the QueryChat class of querychat.py   *)
(* (lines 39-126); it is modelled from its tests                           *)
(* (tests/test_ibis_integration.py), with ibis installed.                  *)

\* what the QueryChat object holds as its data source: none, one with no
\* _table_name attribute, or one with a table name
ExportSources == {"none", "unnamed", "named"}

\* a call on conn: sql(sql), table(name) or create_table("querychat_data", df)
ConnCall(op, sql, name, df) == [op |-> op, sql |-> sql, name |-> name, df |-> df]

\* the name to_ibis gives the table it creates, as a one-word name
QUERYCHAT_DATA == <<"querychat_data">>

NoExport == [result |-> "none", msg |-> "", sql |-> "", source |-> "none",
             sql_reads |-> 0, conn_calls |-> <<>>]

ExportIdle ==
    /\ export_source = "named"
    /\ export = NoExport

\* variant: with a named table the export refers to the table, query or not
ibis_table_prefers_table(sql, source, name, df) ==
    IF source = "named"
    THEN [result |-> "table", msg |-> "",
          conn_calls |-> <<ConnCall("table", "", name, NoValue)>>]
    ELSE IF sql # ""
    THEN [result |-> "table", msg |-> "",
          conn_calls |-> <<ConnCall("sql", sql, <<>>, NoValue)>>]
    ELSE IF source = "none"
    THEN [result |-> "ValueError",
          msg |-> "No SQL query has been generated yet and no data source is available",
          conn_calls |-> <<>>]
    ELSE IF df.res.ok
    THEN [result |-> "table", msg |-> "",
          conn_calls |-> <<ConnCall("create_table", "", QUERYCHAT_DATA, df)>>]
    ELSE [result |-> "raised", msg |-> df.res.msg, conn_calls |-> <<>>]

\* variant: with no query the export always materializes the data frame
ibis_table_always_materializes(sql, source, name, df) ==
    IF sql # ""
    THEN [result |-> "table", msg |-> "",
          conn_calls |-> <<ConnCall("sql", sql, <<>>, NoValue)>>]
    ELSE IF df.res.ok
    THEN [result |-> "table", msg |-> "",
          conn_calls |-> <<ConnCall("create_table", "", QUERYCHAT_DATA, df)>>]
    ELSE [result |-> "raised", msg |-> df.res.msg, conn_calls |-> <<>>]

\* variant: a data source without a table name counts as no data source
ibis_table_needs_name(sql, source, name, df) ==
    IF sql # ""
    THEN [result |-> "table", msg |-> "",
          conn_calls |-> <<ConnCall("sql", sql, <<>>, NoValue)>>]
    ELSE IF source \in {"none", "unnamed"}
    THEN [result |-> "ValueError",
          msg |-> "No SQL query has been generated yet and no data source is available",
          conn_calls |-> <<>>]
    ELSE [result |-> "table", msg |-> "",
          conn_calls |-> <<ConnCall("table", "", name, NoValue)>>]

\* which call on conn makes the table, for the SQL read, the data source
\* held, its table name and what df() gives
ibis_table(sql, source, name, df) ==
    IF sql # ""
    THEN [result |-> "table", msg |-> "",
          conn_calls |-> <<ConnCall("sql", sql, <<>>, NoValue)>>]
    ELSE IF source = "none"
    THEN [result |-> "ValueError",
          msg |-> "No SQL query has been generated yet and no data source is available",
          conn_calls |-> <<>>]
    ELSE IF source = "named"
    THEN [result |-> "table", msg |-> "",
          conn_calls |-> <<ConnCall("table", "", name, NoValue)>>]
    ELSE IF df.res.ok
    THEN [result |-> "table", msg |-> "",
          conn_calls |-> <<ConnCall("create_table", "", QUERYCHAT_DATA, df)>>]
    ELSE [result |-> "raised", msg |-> df.res.msg, conn_calls |-> <<>>]

\* to_ibis(conn): self.sql() is read once; df() is read only to materialize
to_ibis ==
    /\ pc = "idle"
    /\ LET sql == current_query
           df  == filtered_df
           t   == ibis_table(sql, export_source, table_name, df)
       IN  /\ export' = [result |-> t.result, msg |-> t.msg, sql |-> sql,
                         source |-> export_source, sql_reads |-> 1,
                         conn_calls |-> t.conn_calls]
           /\ IF sql = "" /\ export_source = "unnamed"
              THEN /\ calc_value' = df
                   /\ calc_valid' = TRUE
                   /\ prev_df' = df
                   /\ df_reads' = IF df_reads < MaxReads
                                  THEN df_reads + 1 ELSE df_reads
              ELSE UNCHANGED <<calc_value, calc_valid, prev_df, df_reads>>
    /\ obs' = NoObs
    /\ UNCHANGED <<current_query, current_title, backendVars, callVars,
                   historyVars, initVars, export_source, setupVars, renderVars,
                   chatVars, multiVars>>

----------------------------------------------------------------------------
(* QueryChat.__getitem__, lines 115-126: dictionary-style access to the    *)
(* accessors of the object mod_server returns.                             *)

\* the names under which the accessors are kept
Accessors == {"chat", "sql", "title", "df"}

\* the keys a host asks for: the accessors' names and others
Keys == Accessors \cup {"data", ""}

\* the chat object of the session, self._chat
TheChat == "chatlas.Chat"

\* what calling an accessor returns in the state as it is
returns(accessor) ==
    CASE accessor = "chat"  -> [of |-> "chat",  value |-> TheChat]
      [] accessor = "sql"   -> [of |-> "sql",   value |-> current_query]
      [] accessor = "title" -> [of |-> "title", value |-> current_title]
      [] accessor = "df"    -> [of |-> "df",    value |-> filtered_df]

\* variant: the key picks the method of that name, whatever the key
__getitem__by_name(key) == key

\* {"chat": self.chat, "sql": self.sql, "title": self.title,
\*  "df": self.df}.get(key): the accessor kept under the key, else None
__getitem__(key) ==
    LET items == [k \in Accessors |->
                     CASE k = "chat"  -> "chat"
                       [] k = "sql"   -> "sql"
                       [] k = "title" -> "title"
                       [] k = "df"    -> "df"]
    IN  IF key \in DOMAIN items THEN items[key] ELSE None

\* a host evaluates querychat[key]
GetItem(key) ==
    /\ obs' = [NoObs EXCEPT !.kind = "getitem", !.key = key,
                            !.item = __getitem__(key)]
    /\ UNCHANGED <<sessionVars, backendVars, callVars, historyVars, readVars,
                   initVars>>

----------------------------------------------------------------------------
(* The body of mod_server, lines 516-555: synchronous code that creates    *)
(* the chat, registers the tools on it and then defines the handlers that  *)
(* call the agent.                                                         *)

\* the names chat.register_tool(update_dashboard) and
\* chat.register_tool(query) register, in the body's order
ToolNames == <<"update_dashboard", "query">>

\* mod_server has returned: the tools are registered, the handlers defined
SetupDone ==
    /\ setup = "served"
    /\ registered = ToolNames

\* variant: the preview tool is left for the first turn to register
register_tools_lazily ==
    /\ setup = "start"
    /\ registered' = registered \o <<"update_dashboard">>
    /\ setup' = "registered"
    /\ obs' = NoObs
    /\ UNCHANGED <<sessionVars, backendVars, callVars, historyVars, readVars,
                   initVars, renderVars, exportVars, chatVars, multiVars>>

\* lines 519-521: chat = create_chat_callback(...), then both register_tool
register_tools ==
    /\ setup = "start"
    /\ registered' = registered \o ToolNames
    /\ setup' = "registered"
    /\ obs' = NoObs
    /\ UNCHANGED <<sessionVars, backendVars, callVars, historyVars, readVars,
                   initVars, renderVars, exportVars, chatVars, multiVars>>

\* lines 537-555: on_user_submit and greet_on_startup are defined, and
\* mod_server returns; they run only from then on
define_handlers ==
    /\ setup = "registered"
    /\ setup' = "served"
    /\ obs' = NoObs
    /\ UNCHANGED <<registered, sessionVars, backendVars, callVars, historyVars,
                   readVars, initVars, renderVars, exportVars, chatVars,
                   multiVars>>

\* the session's agent has the tool under that name
has_tool(name) == \E i \in 1 .. Len(registered) : registered[i] = name

----------------------------------------------------------------------------
(* Sessions of one config: each mod_server call creates its own reactive  *)
(* values (447-448) and tool closures (463-514) and registers the tools on *)
(* the chat create_chat_callback returns (519-522).  The sessions share    *)
(* the config's data source (441).                                         *)

Sessions == {1, 2}

SessionQueries == {Q_ALL, Q_SOME, Q_BAD}
SessionTitles  == {"Survivors", None}

NotStarted ==
    [started |-> FALSE, chat |-> 0, current_query |-> "", current_title |-> None,
     pc |-> "idle", caller |-> 0, arg_query |-> None, arg_title |-> None]

MultiIdle ==
    /\ sess = <<>>
    /\ chats = <<>>
    /\ actor = 0

\* variant: the callback hands every session the same chat object
create_chat_callback_shared(s) == 1

\* create_chat_callback(system_prompt=...), line 519: by default
\* partial(chatlas.ChatOpenAI, ...) (333-337), a new chat object per call
create_chat_callback(s) == s

\* mod_server, lines 446-448 and 516-522: the session's reactive values, its
\* chat, and its tools registered on that chat under their names
mod_server(s) ==
    /\ ~sess[s].started
    /\ LET chat == create_chat_callback(s)
       IN  /\ sess' = [sess EXCEPT ![s] = [NotStarted EXCEPT !.started = TRUE,
                                                             !.chat = chat]]
           /\ chats' = [chats EXCEPT ![chat] = s]
    /\ actor' = s
    /\ UNCHANGED <<sessionVars, backendVars, callVars, historyVars, readVars, obs,
                   initVars, renderVars, exportVars, setupVars, chatVars>>

\* the session whose closures are the tools of session s's chat
tools_of(s) == chats[sess[s].chat]

\* a turn of session s has its agent call update_dashboard(q, t): the call
\* up to the await of line 476
session_update_dashboard_call(s, q, t) ==
    /\ sess[s].started
    /\ LET o == tools_of(s)
       IN  /\ sess[o].pc = "idle"
           /\ sess' = [sess EXCEPT ![o].pc = "update_dashboard_try",
                                   ![o].caller = s,
                                   ![o].arg_query = q,
                                   ![o].arg_title = t]
    /\ actor' = s
    /\ UNCHANGED <<chats, sessionVars, backendVars, callVars, historyVars,
                   readVars, obs, initVars, renderVars, exportVars, setupVars, chatVars>>

\* lines 478-489 in the closure of session o
session_update_dashboard_try(o) ==
    /\ sess[o].pc = "update_dashboard_try"
    /\ LET c == sess[o]
           r == execute_query(c.arg_query, db, up)
       IN  IF r.ok
           THEN sess' = [sess EXCEPT
                    ![o].current_query =
                        IF c.arg_query # None THEN c.arg_query ELSE c.current_query,
                    ![o].current_title =
                        IF c.arg_title # None THEN c.arg_title ELSE c.current_title,
                    ![o].pc = "idle"]
           ELSE sess' = [sess EXCEPT ![o].pc = "update_dashboard_raise"]
    /\ actor' = sess[o].caller
    /\ UNCHANGED <<chats, sessionVars, backendVars, callVars, historyVars,
                   readVars, obs, initVars, renderVars, exportVars, setupVars, chatVars>>

\* line 484 in the closure of session o
session_update_dashboard_raise(o) ==
    /\ sess[o].pc = "update_dashboard_raise"
    /\ sess' = [sess EXCEPT ![o].pc = "idle"]
    /\ actor' = sess[o].caller
    /\ UNCHANGED <<chats, sessionVars, backendVars, callVars, historyVars,
                   readVars, obs, initVars, renderVars, exportVars, setupVars, chatVars>>

\* a turn of session s has its agent call query(q), lines 492-514, or the
\* host reads sql(), title() or df() of session s (line 555)
session_query_or_read(s) ==
    /\ sess[s].started
    /\ actor' = s
    /\ UNCHANGED <<sess, chats, sessionVars, backendVars, callVars, historyVars,
                   readVars, obs, initVars, renderVars, exportVars, setupVars, chatVars>>

----------------------------------------------------------------------------
(* The chat of a session: greet_on_startup (543-552), on_user_submit       *)
(* (537-541), the agent behind chat.stream_async, which produces reply     *)
(* fragments and awaits the tools it calls, and the chat UI, which appends *)
(* the stream's fragments.  The host is taken to deliver a user message    *)
(* only when the previous reply has ended and its stream is drained.       *)

GreetingPrompt ==
    "Please give me a friendly greeting. Include a few sample prompts in a two-level bulleted list."

\* the greeting of the config: None, or the string init was given
Greetings  == {None, "", "\n", "Hello! Ask me about the data."}
UserInputs == {"Show the survivors"}

\* what the agent passes to the tools in the chat's specification
ChatQueries == {Q_SOME, Q_BAD}
ChatTitles  == {"Survivors"}

Message(text) == [kind |-> "message", text |-> text, rows |-> {}, notice |-> NoNotice]
Chunk         == [kind |-> "chunk", text |-> "", rows |-> {}, notice |-> NoNotice]

\* transcript entries carry the turn and the agent event they belong to
Tagged(entries, n) ==
    [i \in 1 .. Len(entries) |->
        [turn |-> Len(agent_calls), ev |-> n, entry |-> entries[i]]]

ChatIdle ==
    /\ greeting = None
    /\ greeted = FALSE
    /\ transcript = <<>>
    /\ agent_calls = <<>>
    /\ stream = <<>>
    /\ agent = "idle"
    /\ ev = 0
    /\ tool_ev = 0

\* Python's truth value of the greeting
Truthy(g) == g \notin {None, ""}

\* variant: any greeting that is not None is shown, the empty one too
greet_on_startup_shows_any ==
    /\ ~greeted
    /\ greeted' = TRUE
    /\ IF greeting # None
       THEN /\ transcript' = Append(transcript,
                    [turn |-> 0, ev |-> 0, entry |-> Message(greeting)])
            /\ UNCHANGED <<agent_calls, agent>>
       ELSE /\ agent_calls' = Append(agent_calls, GreetingPrompt)
            /\ agent' = "generating"
            /\ UNCHANGED transcript
    /\ obs' = NoObs
    /\ UNCHANGED <<greeting, stream, ev, tool_ev, sessionVars, backendVars,
                   callVars, historyVars, readVars, initVars, renderVars, exportVars, setupVars,
                   multiVars>>

\* greet_on_startup, lines 543-552: the effect runs once, at session start
greet_on_startup ==
    /\ ~greeted
    /\ greeted' = TRUE
    /\ IF Truthy(greeting)
       THEN /\ transcript' = Append(transcript,
                    [turn |-> 0, ev |-> 0, entry |-> Message(greeting)])
            /\ UNCHANGED <<agent_calls, agent>>
       ELSE IF greeting = None
       THEN /\ agent_calls' = Append(agent_calls, GreetingPrompt)
            /\ agent' = "generating"
            /\ UNCHANGED transcript
       ELSE UNCHANGED <<transcript, agent_calls, agent>>
    /\ obs' = NoObs
    /\ UNCHANGED <<greeting, stream, ev, tool_ev, sessionVars, backendVars,
                   callVars, historyVars, readVars, initVars, renderVars, exportVars, setupVars,
                   multiVars>>

UserTurns == Cardinality({i \in 1 .. Len(agent_calls) : agent_calls[i] # GreetingPrompt})

\* on_user_submit, lines 537-541: stream = await chat.stream_async(user_input)
on_user_submit(user_input) ==
    /\ greeted
    /\ agent = "idle"
    /\ stream = <<>>
    /\ UserTurns < MaxTurns
    /\ agent_calls' = Append(agent_calls, user_input)
    /\ agent' = "generating"
    /\ obs' = NoObs
    /\ UNCHANGED <<greeting, greeted, transcript, stream, ev, tool_ev,
                   sessionVars, backendVars, callVars, historyVars, readVars,
                   initVars, renderVars, exportVars, setupVars, multiVars>>

\* variant: the agent goes on generating while a tool it called is running
agent_yields_early ==
    /\ agent = "generating"
    /\ ev < MaxEvents
    /\ ev' = ev + 1
    /\ stream' = Append(stream,
                        [turn |-> Len(agent_calls), ev |-> ev + 1, entry |-> Chunk])
    /\ obs' = NoObs
    /\ UNCHANGED <<greeting, greeted, transcript, agent_calls, agent, tool_ev,
                   sessionVars, backendVars, callVars, historyVars, readVars,
                   initVars, renderVars, exportVars, setupVars, multiVars>>

\* the agent produces the next fragment of its reply; it does so only when
\* no tool it awaits is running
agent_yields ==
    /\ agent = "generating"
    /\ pc = "idle"
    /\ ev < MaxEvents
    /\ ev' = ev + 1
    /\ stream' = Append(stream,
                        [turn |-> Len(agent_calls), ev |-> ev + 1, entry |-> Chunk])
    /\ obs' = NoObs
    /\ UNCHANGED <<greeting, greeted, transcript, agent_calls, agent, tool_ev,
                   sessionVars, backendVars, callVars, historyVars, readVars,
                   initVars, renderVars, exportVars, setupVars, multiVars>>

\* what a step of a tool appended to the transcript
tool_writes ==
    /\ transcript' = transcript \o
           Tagged(SubSeq(emitted', Len(emitted) + 1, Len(emitted')), tool_ev)
    /\ UNCHANGED <<greeting, greeted, agent_calls, stream, agent, ev, tool_ev,
                   renderVars, exportVars, setupVars, multiVars>>

\* the agent calls a registered tool: await self.tools["update_dashboard"](sql, title)
agent_calls_tool(call) ==
    /\ agent = "generating"
    /\ pc = "idle"
    /\ ev < MaxEvents
    /\ call
    /\ ev' = ev + 1
    /\ tool_ev' = ev + 1
    /\ transcript' = transcript \o Tagged(emitted', ev + 1)
    /\ UNCHANGED <<greeting, greeted, agent_calls, stream, agent, renderVars, exportVars, setupVars,
                   multiVars>>

\* the agent's reply ends
agent_finishes ==
    /\ agent = "generating"
    /\ pc = "idle"
    /\ agent' = "idle"
    /\ obs' = NoObs
    /\ UNCHANGED <<greeting, greeted, transcript, agent_calls, stream, ev,
                   tool_ev, sessionVars, backendVars, callVars, historyVars,
                   readVars, initVars, renderVars, exportVars, setupVars, multiVars>>

\* chat_ui.append_message_stream(stream): the next fragment is appended
append_message_stream ==
    /\ stream # <<>>
    /\ transcript' = Append(transcript, Head(stream))
    /\ stream' = Tail(stream)
    /\ obs' = NoObs
    /\ UNCHANGED <<greeting, greeted, agent_calls, agent, ev, tool_ev,
                   sessionVars, backendVars, callVars, historyVars, readVars,
                   initVars, renderVars, exportVars, setupVars, multiVars>>

----------------------------------------------------------------------------
(* Specifications *)

\* the config init returned for a data frame and the table name "a"
Configured ==
    /\ table_name = <<"a">>
    /\ init_args = DefaultArgs
    /\ init_prompt = system_prompt(None, None, None)
    /\ init_log = <<"to_pandas", "DataFrameSource", "get_schema">>
    /\ init_result = "QueryChatConfig"

Init ==
    /\ SessionInit
    /\ Configured
    /\ RenderIdle
    /\ ChatIdle
    /\ MultiIdle
    /\ ExportIdle
    /\ SetupDone

Next ==
    \/ /\ \E q \in QueryArgs, t \in TitleArgs, same \in BOOLEAN :
             update_dashboard_call(q, t, same)
       /\ UNCHANGED <<renderVars, exportVars, setupVars, chatVars, multiVars>>
    \/ /\ update_dashboard_try
       /\ UNCHANGED <<renderVars, exportVars, setupVars, chatVars, multiVars>>
    \/ /\ update_dashboard_raise
       /\ UNCHANGED <<renderVars, exportVars, setupVars, chatVars, multiVars>>
    \/ /\ \E q \in QueryArgs : query_call(q)
       /\ UNCHANGED <<renderVars, exportVars, setupVars, chatVars, multiVars>>
    \/ /\ query_try
       /\ UNCHANGED <<renderVars, exportVars, setupVars, chatVars, multiVars>>
    \/ /\ query_return
       /\ UNCHANGED <<renderVars, exportVars, setupVars, chatVars, multiVars>>
    \/ /\ query_raise
       /\ UNCHANGED <<renderVars, exportVars, setupVars, chatVars, multiVars>>
    \/ /\ ReadState
       /\ UNCHANGED <<renderVars, exportVars, setupVars, chatVars, multiVars>>
    \/ /\ ReadDf
       /\ UNCHANGED <<renderVars, exportVars, setupVars, chatVars, multiVars>>
    \/ /\ BackendChange
       /\ UNCHANGED <<renderVars, exportVars, setupVars, chatVars, multiVars>>
    \/ /\ BackendFlip
       /\ UNCHANGED <<renderVars, exportVars, setupVars, chatVars, multiVars>>

Spec == Init /\ [][Next]_vars

\* a session whose turns the host may cancel while a tool is suspended
CancelNext ==
    \/ /\ \E q \in QueryArgs, t \in TitleArgs, same \in BOOLEAN :
             update_dashboard_call(q, t, same)
       /\ UNCHANGED <<renderVars, exportVars, setupVars, chatVars, multiVars>>
    \/ /\ update_dashboard_try
       /\ UNCHANGED <<renderVars, exportVars, setupVars, chatVars, multiVars>>
    \/ /\ update_dashboard_raise
       /\ UNCHANGED <<renderVars, exportVars, setupVars, chatVars, multiVars>>
    \/ /\ \E q \in QueryArgs : query_call(q)
       /\ UNCHANGED <<renderVars, exportVars, setupVars, chatVars, multiVars>>
    \/ /\ query_try
       /\ UNCHANGED <<renderVars, exportVars, setupVars, chatVars, multiVars>>
    \/ /\ query_return
       /\ UNCHANGED <<renderVars, exportVars, setupVars, chatVars, multiVars>>
    \/ /\ query_raise
       /\ UNCHANGED <<renderVars, exportVars, setupVars, chatVars, multiVars>>
    \/ /\ cancel
       /\ UNCHANGED <<renderVars, exportVars, setupVars, chatVars, multiVars>>
    \/ /\ ReadState
       /\ UNCHANGED <<renderVars, exportVars, setupVars, chatVars, multiVars>>
    \/ /\ BackendFlip
       /\ UNCHANGED <<renderVars, exportVars, setupVars, chatVars, multiVars>>

CancelSpec == Init /\ [][CancelNext]_vars

InitInit ==
    /\ SessionInit
    /\ table_name = <<>>
    /\ init_args = DefaultArgs
    /\ init_prompt = NoPrompt
    /\ init_log = <<>>
    /\ init_result = "not called"
    /\ RenderIdle
    /\ ChatIdle
    /\ MultiIdle
    /\ ExportIdle
    /\ SetupDone

InitNext ==
    \E name \in Names, args \in InitArgs : init(name, args)

InitSpec == InitInit /\ [][InitNext]_vars

\* a session from its start: the greeting, then the user's turns
ChatInit ==
    /\ SessionInit
    /\ Configured
    /\ RenderIdle
    /\ MultiIdle
    /\ ExportIdle
    /\ SetupDone
    /\ greeting \in Greetings
    /\ greeted = FALSE
    /\ transcript = <<>>
    /\ agent_calls = <<>>
    /\ stream = <<>>
    /\ agent = "idle"
    /\ ev = 0
    /\ tool_ev = 0

ChatNext ==
    \/ greet_on_startup
    \/ \E user_input \in UserInputs : on_user_submit(user_input)
    \/ agent_yields
    \/ \E q \in ChatQueries, t \in ChatTitles :
           agent_calls_tool(update_dashboard_call(q, t, FALSE))
    \/ \E q \in ChatQueries : agent_calls_tool(query_call(q))
    \/ update_dashboard_try /\ tool_writes
    \/ update_dashboard_raise /\ tool_writes
    \/ query_try /\ tool_writes
    \/ query_return /\ tool_writes
    \/ query_raise /\ tool_writes
    \/ agent_finishes
    \/ append_message_stream

ChatSpec == ChatInit /\ [][ChatNext]_vars

\* a session whose host looks accessors up by key between the tools' steps
AccessNext ==
    \/ /\ \E q \in QueryArgs, t \in TitleArgs, same \in BOOLEAN :
             update_dashboard_call(q, t, same)
       /\ UNCHANGED <<renderVars, exportVars, setupVars, chatVars, multiVars>>
    \/ /\ update_dashboard_try
       /\ UNCHANGED <<renderVars, exportVars, setupVars, chatVars, multiVars>>
    \/ /\ update_dashboard_raise
       /\ UNCHANGED <<renderVars, exportVars, setupVars, chatVars, multiVars>>
    \/ /\ ReadDf
       /\ UNCHANGED <<renderVars, exportVars, setupVars, chatVars, multiVars>>
    \/ /\ BackendFlip
       /\ UNCHANGED <<renderVars, exportVars, setupVars, chatVars, multiVars>>
    \/ /\ \E key \in Keys : GetItem(key)
       /\ UNCHANGED <<renderVars, exportVars, setupVars, chatVars, multiVars>>

AccessSpec == Init /\ [][AccessNext]_vars

\* a session from the call of mod_server on: its body, then what ChatSpec has;
\* a handler runs once it is defined, a tool once the agent has it
SetupInit ==
    /\ SessionInit
    /\ Configured
    /\ RenderIdle
    /\ MultiIdle
    /\ ExportIdle
    /\ setup = "start"
    /\ registered = <<>>
    /\ greeting \in Greetings
    /\ greeted = FALSE
    /\ transcript = <<>>
    /\ agent_calls = <<>>
    /\ stream = <<>>
    /\ agent = "idle"
    /\ ev = 0
    /\ tool_ev = 0

SetupNext ==
    \/ register_tools
    \/ define_handlers
    \/ setup = "served" /\ greet_on_startup
    \/ setup = "served" /\ \E user_input \in UserInputs : on_user_submit(user_input)
    \/ agent_yields
    \/ /\ has_tool("update_dashboard")
       /\ \E q \in ChatQueries, t \in ChatTitles :
              agent_calls_tool(update_dashboard_call(q, t, FALSE))
    \/ /\ has_tool("query")
       /\ \E q \in ChatQueries : agent_calls_tool(query_call(q))
    \/ update_dashboard_try /\ tool_writes
    \/ update_dashboard_raise /\ tool_writes
    \/ query_try /\ tool_writes
    \/ query_return /\ tool_writes
    \/ query_raise /\ tool_writes
    \/ agent_finishes
    \/ append_message_stream

SetupSpec == SetupInit /\ [][SetupNext]_vars

\* the event loop resumes a coroutine whose await is over: a tool goes on
\* when the backend has answered, the agent ends its reply, and the chat
\* takes the fragments that wait in the stream
ChatFairness ==
    /\ WF_vars(update_dashboard_try /\ tool_writes)
    /\ WF_vars(update_dashboard_raise /\ tool_writes)
    /\ WF_vars(query_try /\ tool_writes)
    /\ WF_vars(query_return /\ tool_writes)
    /\ WF_vars(query_raise /\ tool_writes)
    /\ WF_vars(agent_finishes)
    /\ WF_vars(append_message_stream)

ChatFairSpec == ChatSpec /\ ChatFairness

\* the same session with the host's readers between the steps, greeted by
\* the agent or with the greeting of the config
TurnsInit ==
    /\ ChatInit
    /\ greeting \in {None, "Hello! Ask me about the data."}

TurnsNext ==
    \/ ChatNext
    \/ ReadState /\ UNCHANGED <<renderVars, exportVars, setupVars, chatVars, multiVars>>
    \/ ReadDf /\ UNCHANGED <<renderVars, exportVars, setupVars, chatVars, multiVars>>

TurnsSpec == TurnsInit /\ [][TurnsNext]_vars

\* two sessions started from one config, their operations interleaved
SessionsInit ==
    /\ SessionInit
    /\ Configured
    /\ RenderIdle
    /\ ChatIdle
    /\ ExportIdle
    /\ SetupDone
    /\ sess = [s \in Sessions |-> NotStarted]
    /\ chats = [c \in Sessions |-> 0]
    /\ actor = 0

SessionsNext ==
    \/ \E s \in Sessions : mod_server(s)
    \/ \E s \in Sessions, q \in SessionQueries, t \in SessionTitles :
           session_update_dashboard_call(s, q, t)
    \/ \E o \in Sessions : session_update_dashboard_try(o)
    \/ \E o \in Sessions : session_update_dashboard_raise(o)
    \/ \E s \in Sessions : session_query_or_read(s)
    \/ BackendFlip /\ actor' = 0 /\ UNCHANGED <<sess, chats, renderVars, exportVars, setupVars, chatVars>>

SessionsSpec == SessionsInit /\ [][SessionsNext]_vars

\* a session whose host exports the current result between commits
ExportInit ==
    /\ SessionInit
    /\ Configured
    /\ RenderIdle
    /\ ChatIdle
    /\ MultiIdle
    /\ export_source \in ExportSources
    /\ export = NoExport
    /\ SetupDone

ExportNext ==
    \/ /\ \E q \in QueryArgs, t \in TitleArgs, same \in BOOLEAN :
             update_dashboard_call(q, t, same)
       /\ UNCHANGED <<renderVars, exportVars, setupVars, chatVars, multiVars>>
    \/ /\ update_dashboard_try
       /\ UNCHANGED <<renderVars, exportVars, setupVars, chatVars, multiVars>>
    \/ /\ update_dashboard_raise
       /\ UNCHANGED <<renderVars, exportVars, setupVars, chatVars, multiVars>>
    \/ /\ BackendChange
       /\ UNCHANGED <<renderVars, exportVars, setupVars, chatVars, multiVars>>
    \/ /\ BackendFlip
       /\ UNCHANGED <<renderVars, exportVars, setupVars, chatVars, multiVars>>
    \/ to_ibis

ExportSpec == ExportInit /\ [][ExportNext]_vars

\* df_to_html applied to every frame of at most MaxFrameRows rows
HtmlInit ==
    /\ SessionInit
    /\ Configured
    /\ frame \in Frames
    /\ html = NoHtml
    /\ ChatIdle
    /\ MultiIdle
    /\ ExportIdle
    /\ SetupDone

HtmlNext == render

HtmlSpec == HtmlInit /\ [][HtmlNext]_vars

----------------------------------------------------------------------------
(* Claims *)

Committing == tool = "update_dashboard"

\* what lines 486-489 make of the state the call found and its arguments
MergedQuery == IF arg_query # None THEN arg_query ELSE pre_query
MergedTitle == IF arg_title # None THEN arg_title ELSE pre_title

\* C1: a failing commit never changes session state: from the moment
\* execute_query has raised inside update_dashboard, through the error notice
\* and the raise, current_query and current_title are what they were when the
\* call started.
C1_FailingCommitKeepsState ==
    (Committing /\ (pc = "update_dashboard_raise" \/ outcome.kind = "raised"))
        => (current_query = pre_query /\ current_title = pre_title)

\* C1 witness: a commit with other arguments failed in an Active session.
C1_Witness ==
    /\ Committing
    /\ outcome.kind = "raised"
    /\ pre_query # ""
    /\ arg_query \notin {None, pre_query}
    /\ arg_title \notin {None, pre_title}

\* C2 as stated: after a commit that returned, current_query = query and
\* current_title = title, whatever the arguments were.
C2_Original ==
    (Committing /\ outcome.kind = "returned")
        => (current_query = arg_query /\ current_title = arg_title)

\* C2 amended: after a commit that returned, current_query is the query
\* argument and current_title is the title argument, except that an argument
\* that is None leaves its field as the call found it.
C2_SuccessfulCommitSetsFields ==
    (Committing /\ outcome.kind = "returned")
        => (current_query = MergedQuery /\ current_title = MergedTitle)

\* C2 witness: a commit that passed no title returned in a session that had
\* a title, and replaced the query.
C2_Witness ==
    /\ Committing
    /\ outcome.kind = "returned"
    /\ arg_title = None
    /\ pre_title # None
    /\ arg_query # pre_query

C4_PreviewKeepsState ==
    (tool = "query") => (current_query = pre_query /\ current_title = pre_title)

\* C4 witness: a preview of another query returned in an Active session.
C4_Witness ==
    /\ tool = "query"
    /\ outcome.kind = "returned"
    /\ pre_query # ""
    /\ arg_query # pre_query

\* a commit has returned in this session
Committed == last_ok_query # ""

\* C5 as stated: after a commit of S that returned, every read of sql() gives
\* S, and the first read of df() gives what execute_query(S) gives on the
\* backend as it is at that read.
C5_Original ==
    /\ (Committed /\ obs.kind \in {"state", "df"}) => obs.sql = last_ok_query
    /\ (Committed /\ obs.kind = "df" /\ obs.nth = 0)
           => obs.df.res = execute_query(last_ok_query, db, up)

\* C5 amended: after a commit of S that returned, every read of sql() gives
\* S; the first read of df() gives what execute_query(S) gives on the backend
\* as it is at that read when the commit stored its string (S was not the
\* very object current_query held), and otherwise that or what the previous
\* df() read returned.
C5_ReadYourWrites ==
    /\ (Committed /\ obs.kind \in {"state", "df"}) => obs.sql = last_ok_query
    /\ (Committed /\ obs.kind = "df" /\ obs.nth = 0)
           => \/ obs.df.res = execute_query(last_ok_query, db, up)
              \/ last_ok_same /\ obs.df = obs.prev

\* C5 witness: S was committed and read, the data changed, S was committed
\* again as a new string, and the read returned the new rows.
C5_Witness ==
    /\ Committed
    /\ obs.kind = "df"
    /\ obs.nth = 0
    /\ ~last_ok_same
    /\ obs.prev.sql = last_ok_query
    /\ obs.prev.res.ok /\ obs.df.res.ok
    /\ obs.df.res # obs.prev.res

\* C6: df() is derived from the state by case: read with current_query empty
\* it returns a value get_data() produced and calls no execute_query; read
\* with current_query non-empty it returns a value execute_query produced for
\* that very SQL.
C6_DfByCase ==
    (obs.kind = "df") =>
        /\ (current_query = "") =>
               (obs.df.src = "get_data" /\ "execute_query" \notin obs.calls)
        /\ (current_query # "") =>
               (obs.df.src = "execute_query" /\ obs.df.sql = current_query)

\* C6 witness: the previous read returned the unfiltered table and this one
\* ran the committed query.
C6_Witness ==
    /\ obs.kind = "df"
    /\ obs.prev.src = "get_data"
    /\ current_query # ""
    /\ obs.calls = {"execute_query"}
    /\ obs.df.res.ok

\* C7 as stated: every read of df() returns what the body of filtered_df
\* gives on the backend as it is at that read.
C7_Original ==
    (obs.kind = "df") => obs.df = filtered_df_body(current_query, db, up)

\* C7 amended: filtered_df is a cached reactive calc: a read of df() that
\* follows another with no commit having returned in between returns the
\* value the earlier read returned, also when the backend changed in between.
C7_DfCachedBetweenCommits ==
    (obs.kind = "df" /\ obs.nth >= 1) => obs.df = obs.prev

\* C7 witness: the backend changed between two reads and the second returned
\* the first one's value, not the backend's.
C7_Witness ==
    /\ obs.kind = "df"
    /\ obs.nth >= 1
    /\ obs.df.res.ok
    /\ obs.df # filtered_df_body(current_query, db, up)

\* C8 as stated: the state is the pair of arguments of the last commit that
\* returned, or ("", None) when none has.
C8_Original ==
    current_query = last_ok_query /\ current_title = last_ok_title

\* C8 amended: current_query is the query of the last commit that returned
\* ("" when none has) and current_title is the last title other than None
\* passed to a commit that returned (None when there is none); failing
\* commits and previews in between change neither.
C8_StateIsLastSuccessfulCommit ==
    current_query = last_ok_query /\ current_title = last_set_title

\* C8 witness: after a commit that returned, a commit with other arguments
\* failed.
C8_Witness ==
    /\ Committed
    /\ Committing
    /\ outcome.kind = "raised"
    /\ arg_query \notin {None, last_ok_query}
    /\ arg_title \notin {None, last_set_title}

IsIdentifier(s) ==
    /\ Len(s) >= 1
    /\ s[1] \in Letters
    /\ \A j \in 2..Len(s) : IsWordChar(s[j])

\* C10: init goes on past its validation exactly when the whole table name
\* is a letter followed by letters, digits and underscores, and raises
\* otherwise.
C10_InitAcceptsIdentifiersOnly ==
    (init_result # "not called")
        => (init_result = "QueryChatConfig" <=> IsIdentifier(table_name))

\* C11: a table name that is not an identifier is rejected before any
\* backend access: init raises ValueError having constructed no data source,
\* converted no frame and asked for no schema, and returns no config.
C11_InvalidNameRejectedFirst ==
    (init_result # "not called" /\ ~IsIdentifier(table_name))
        => (init_result = "ValueError" /\ init_log = <<>>)

\* the positions in which a tool is about to run execute_query, and those
\* in which it is about to re-raise what execute_query raised
Trying  == pc \in {"update_dashboard_try", "query_try"}
Raising == pc \in {"update_dashboard_raise", "query_raise"}

\* C12: in every call of update_dashboard and of query the code block with
\* the query text is in the transcript before execute_query is invoked, and
\* it is still the transcript's first entry of the call when the call has
\* returned or raised.
C12_SqlBlockBeforeExecution ==
    /\ Trying => emitted = <<SqlBlock(arg_query)>>
    /\ (tool # "none" /\ (Raising \/ outcome.kind \in {"returned", "raised"}))
           => (Len(emitted) >= 1 /\ emitted[1] = SqlBlock(arg_query))

\* a call of query raised, and its SQL block is in the transcript before the
\* error notice
C12_Witness ==
    /\ tool = "query"
    /\ outcome.kind = "raised"
    /\ emitted = <<SqlBlock(Q_BAD), ErrorNotice(outcome.msg)>>

\* C13: when execute_query raises in either tool, the step appends one error
\* notice with the backend's message after the SQL block and goes on to the
\* raise; the raise propagates that same message; a call that raised has
\* exactly the SQL block and that one notice in the transcript, and no call
\* whose execute_query raised returns normally.
C13_BackendErrorSurfaced ==
    [][LET r == execute_query(arg_query, db, up)
       IN  /\ (Trying /\ pc' # pc /\ ~r.ok)
                  => /\ emitted' = Append(emitted, ErrorNotice(r.msg))
                     /\ pc' \in {"update_dashboard_raise", "query_raise"}
                     /\ outcome'.kind = "running"
                     /\ outcome'.msg = r.msg
           /\ (Raising /\ pc' # pc)
                  => /\ outcome'.kind = "raised"
                     /\ outcome'.msg = outcome.msg
                     /\ emitted' = emitted
           /\ outcome'.kind = "raised"
                  => emitted' = <<SqlBlock(arg_query'),
                                  ErrorNotice(outcome'.msg)>>
      ]_vars

\* update_dashboard raised the backend's message for a column that does not
\* exist, the notice with that message after the SQL block
C13_Witness ==
    /\ tool = "update_dashboard"
    /\ outcome.kind = "raised"
    /\ outcome.msg = execute_query(Q_BAD, db, TRUE).msg
    /\ emitted = <<SqlBlock(Q_BAD), ErrorNotice(outcome.msg)>>

\* C14: a successful query(sql) returns every row of its result as a
\* record, however many of them were rendered into the transcript.
C14_QueryReturnsFullResult ==
    [][/\ (pc = "query_try" /\ pc' = "query_return")
              => outcome'.value = execute_query(arg_query, db, up).rows
       /\ (pc = "query_return" /\ outcome'.kind = "returned")
              => /\ outcome'.value = to_json(outcome.value)
                 /\ Cardinality(outcome'.value) = Cardinality(outcome.value)
      ]_vars

\* query returned more records than the MAXROWS rows it rendered
C14_Witness ==
    /\ tool = "query"
    /\ outcome.kind = "returned"
    /\ Len(emitted) = 2
    /\ Cardinality(emitted[2].rows) = MAXROWS
    /\ Cardinality(outcome.value) > MAXROWS
    /\ Cardinality(outcome.value) = emitted[2].notice.total

\* C20: a turn cancelled at a suspension point of update_dashboard leaves
\* current_query and current_title either both as the call found them or
\* both set to the call's arguments.
C20_CancelLeavesNoPartialCommit ==
    (Committing /\ outcome.kind = "cancelled")
        => \/ (current_query = pre_query /\ current_title = pre_title)
           \/ (current_query = arg_query /\ current_title = arg_title)

\* update_dashboard was cancelled while waiting in its error notice's write,
\* with arguments that differ from the state in both fields
C20_Witness ==
    /\ Committing
    /\ outcome.kind = "cancelled"
    /\ Len(emitted) = 2
    /\ arg_query \notin {None, pre_query}
    /\ arg_title \notin {None, pre_title}
    /\ current_query = pre_query
    /\ current_title = pre_title

\* C15: for a result of M rows the rendered table has min(M, MAXROWS) rows,
\* the first ones, and carries the note naming MAXROWS and M exactly when
\* M > MAXROWS.
C15_PreviewCappedWithNote ==
    html # NoHtml =>
        LET M == Cardinality(frame)
        IN  /\ html.rows = head(frame, MAXROWS)
            /\ Cardinality(html.rows) = IF M < MAXROWS THEN M ELSE MAXROWS
            /\ (html.notice # NoNotice) <=> (M > MAXROWS)
            /\ M > MAXROWS => html.notice = [first |-> MAXROWS, total |-> M]

\* a frame of exactly MAXROWS rows was rendered whole, with no note
C15_Witness ==
    /\ html # NoHtml
    /\ Cardinality(frame) = MAXROWS
    /\ html.rows = frame
    /\ html.notice = NoNotice

GreetingCalls == {i \in 1 .. Len(agent_calls) : agent_calls[i] = GreetingPrompt}
GreetingShown == {i \in 1 .. Len(transcript) : transcript[i].entry.kind = "message"}

\* C16 as stated: once the session has started, a greeting string that was
\* supplied is the transcript's first entry, verbatim, with no agent call for
\* a greeting; with no greeting supplied there is exactly one such call.
C16_Original ==
    greeted =>
        /\ greeting # None
               => /\ transcript # <<>>
                  /\ transcript[1].entry = Message(greeting)
                  /\ GreetingCalls = {}
        /\ greeting = None => GreetingCalls = {1}

\* C16, amended: a greeting string that is not empty is displayed verbatim,
\* once, as the first entry, with no agent call for a greeting; the empty
\* string displays nothing and calls no agent; with no greeting (None) the
\* first agent call, and only that one, asks for a greeting, and no greeting
\* message is displayed beside its stream.
C16_GreetingAtStart ==
    /\ ~greeted => (transcript = <<>> /\ agent_calls = <<>>)
    /\ greeted =>
        /\ Truthy(greeting)
               => /\ transcript # <<>>
                  /\ transcript[1].entry = Message(greeting)
                  /\ GreetingShown = {1}
                  /\ GreetingCalls = {}
        /\ greeting = "" => (GreetingShown = {} /\ GreetingCalls = {})
        /\ greeting = None => (GreetingShown = {} /\ GreetingCalls = {1})

\* no greeting was supplied: the one agent call was made, its reply has
\* ended and its fragments are in the transcript
C16_Witness ==
    /\ greeted
    /\ greeting = None
    /\ agent_calls = <<GreetingPrompt>>
    /\ agent = "idle"
    /\ stream = <<>>
    /\ Len(transcript) = 2
    /\ \A i \in 1 .. 2 : transcript[i] = [turn |-> 1, ev |-> i, entry |-> Chunk]

ChunkAt(i) == transcript[i].entry.kind = "chunk"
ToolAt(i)  == transcript[i].entry.kind \in {"sql", "error", "table"}

\* C18: reply fragments are in the transcript in the order the agent
\* produced them; no transcript write of a tool call comes after a fragment
\* the agent produced after that call; and while a tool call is running every
\* fragment in the transcript was produced before the call.
C18_TranscriptOrder ==
    /\ \A i, j \in 1 .. Len(transcript) :
           (i < j /\ ChunkAt(i) /\ ChunkAt(j))
               => transcript[i].ev < transcript[j].ev
    /\ \A i, j \in 1 .. Len(transcript) :
           (i < j /\ ChunkAt(i) /\ ToolAt(j))
               => transcript[i].ev < transcript[j].ev
    /\ pc # "idle"
           => \A i \in 1 .. Len(transcript) :
                  ChunkAt(i) => transcript[i].ev < tool_ev

\* a fragment, then a failing tool call's SQL block and error notice, then
\* the fragment the agent produced after the call
C18_Witness ==
    /\ Len(transcript) = 4
    /\ ChunkAt(1)
    /\ transcript[2].entry = SqlBlock(Q_BAD)
    /\ transcript[3].entry.kind = "error"
    /\ ChunkAt(4)
    /\ transcript[4].ev = 3

C21_OverrideReplacesPrompt ==
    (init_result = "QueryChatConfig" /\ init_args.system_prompt_override # None)
        => init_prompt = PromptText(init_args.system_prompt_override)

\* C22: a session starts with current_query = "" and current_title = None,
\* and until the first update_dashboard call has returned they stay so and
\* readers see them so; a df() read in that state returns what get_data
\* returned, the whole table of some version of the data.
C22_InitialStateUntilCommit ==
    ~Committed =>
        /\ current_query = ""
        /\ current_title = None
        /\ obs.kind \in {"state", "df"} => (obs.sql = "" /\ obs.title = None)
        /\ obs.kind = "df"
               => /\ obs.df.src = "get_data"
                  /\ obs.df.res.ok
                         => \E d \in 0 .. db : obs.df.res.rows = Table(d)

\* no call of update_dashboard has returned, one has raised, and a df() read
\* after it returned the whole table
C22_Witness ==
    /\ ~Committed
    /\ tool = "update_dashboard"
    /\ outcome.kind = "raised"
    /\ obs.kind = "df"
    /\ obs.df = [src |-> "get_data", sql |-> "", res |-> Ok(Table(0))]

\* C23: current_query and current_title change only in the step in which an
\* update_dashboard call whose execute_query did not raise sets them and
\* returns; reads, the preview tool, a failing commit, the greeting and the
\* agent's fragments leave both as they are.
C23_OneWriter ==
    [][(current_query' # current_query \/ current_title' # current_title)
           => /\ pc = "update_dashboard_try"
              /\ execute_query(arg_query, db, up).ok
              /\ pc' = "idle"
              /\ outcome'.kind = "returned"
      ]_vars

\* after the agent's greeting and a user turn with a preview, a failing
\* commit and a read, the state is still the initial one
C23_Witness ==
    /\ Len(agent_calls) = 2
    /\ \E i, j \in 1 .. Len(transcript) :
           /\ transcript[i].entry.kind = "table"
           /\ transcript[j].entry.kind = "error"
    /\ obs.kind = "df"
    /\ current_query = ""
    /\ current_title = None

TranscriptErrors ==
    {i \in 1 .. Len(transcript) : transcript[i].entry.kind = "error"}

\* C24: after a tool call has failed the session goes on: the failed call
\* leaves the tools free for the next call, an update_dashboard with
\* executable SQL made after it returns and its SQL becomes current_query,
\* and SQL that the backend rejects is never current_query.
C24_ErrorNotFatal ==
    [][/\ (Raising /\ pc' # pc) => pc' = "idle"
       /\ (TranscriptErrors # {} /\ pc = "update_dashboard_try" /\ pc' # pc
             /\ execute_query(arg_query, db, up).ok)
              => /\ outcome'.kind = "returned"
                 /\ pc' = "idle"
                 /\ current_query' = arg_query
                 /\ current_title' = arg_title
       /\ ~execute_query(current_query', db', TRUE).ok => current_query' = ""
      ]_vars

\* a commit failed, and an update_dashboard made after it is the state
C24_Witness ==
    /\ TranscriptErrors # {}
    /\ tool = "update_dashboard"
    /\ outcome.kind = "returned"
    /\ \E i \in TranscriptErrors : transcript[i].ev < tool_ev
    /\ current_query = Q_SOME
    /\ current_title = "Survivors"

\* C25 as stated: after a successful commit, a df() read made while the
\* backend is failing raises the backend's error.
C25_Original ==
    (Committed /\ obs.kind = "df" /\ ~up) => ~obs.df.res.ok

\* C25, amended: after a successful commit, a df() read that runs the query
\* while the backend is failing raises the backend's error, not a frame; a
\* read that does not run it returns what the read before it returned, a
\* frame or an error; and no read changes current_query or current_title.
C25_ReadErrorPropagated ==
    (Committed /\ obs.kind = "df") =>
        /\ (obs.calls # {} /\ ~up)
               => /\ ~obs.df.res.ok
                  /\ obs.df.res = execute_query(current_query, db, up)
                  /\ obs.df.src = "execute_query"
        /\ obs.calls = {} => obs.df = obs.prev
        /\ obs.sql = current_query
        /\ obs.title = current_title

\* the first df() read after a commit, made with the backend down, raised
C25_Witness ==
    /\ Committed
    /\ obs.kind = "df"
    /\ obs.calls = {"execute_query"}
    /\ ~up
    /\ obs.df.res = Err("OperationalError: backend unavailable")
    /\ current_query = Q_SOME

\* to_ibis has returned or raised
Exported == export.result # "none"

ValidatesThenWrites ==
    [][/\ (current_query' # current_query \/ current_title' # current_title)
             => /\ pc = "update_dashboard_try"
                /\ executed = 0 /\ executed' = 1
                /\ execute_query(arg_query, db, up).ok
       /\ (pc # "idle" /\ pc' = "idle" /\ tool = "update_dashboard")
             => executed' = 1
       /\ (pc = "update_dashboard_try" /\ pc' # pc)
             => /\ calc_value' = calc_value
                /\ prev_df' = prev_df
                /\ calc_valid' => calc_valid
      ]_vars

\* C32 as stated: every update_dashboard call runs execute_query(query)
\* once, before any write, and discards the result; the df() read that
\* follows the commit runs the query again.
C32_Original ==
    /\ ValidatesThenWrites
    /\ []((Committed /\ obs.kind = "df" /\ obs.nth = 0)
             => obs.calls = {"execute_query"})

\* C32, amended: every update_dashboard call runs execute_query(query)
\* once, before any write, and discards the result; the first df() read
\* after the commit runs the query again, or, when the commit passed the
\* very string current_query held and df() had a value, returns that value
\* of an earlier read without running anything.
C32_CommitValidatesByExecuting ==
    /\ ValidatesThenWrites
    /\ []((Committed /\ obs.kind = "df" /\ obs.nth = 0)
             => \/ obs.calls = {"execute_query"}
                \/ last_ok_same /\ obs.calls = {} /\ obs.df = obs.prev)

\* a commit ran its query once and the df() read after it ran it again
C32_Witness ==
    /\ Committed
    /\ tool = "update_dashboard"
    /\ outcome.kind = "returned"
    /\ executed = 1
    /\ obs.kind = "df"
    /\ obs.nth = 0
    /\ obs.calls = {"execute_query"}
    /\ obs.df.res = execute_query(last_ok_query, db, up)
    /\ obs.df.res.ok

\* C33: whenever a handler can run, and so whenever the greeting has been
\* made or the agent has been called, update_dashboard and query are each
\* registered once on the session's chat; nothing of the session runs
\* before the body of mod_server is through, and no tool is registered
\* after it.
C33_ToolsRegisteredFirst ==
    /\ (setup = "served" \/ greeted \/ agent_calls # <<>>)
          => registered = ToolNames
    /\ setup # "served"
          => (~greeted /\ agent_calls = <<>> /\ transcript = <<>> /\ pc = "idle")
    /\ \A i, j \in 1 .. Len(registered) :
          registered[i] = registered[j] => i = j

\* the greeting was generated, a user's turn called the query tool
C33_Witness ==
    /\ setup = "served"
    /\ registered = ToolNames
    /\ Len(agent_calls) = 2
    /\ agent_calls[1] = GreetingPrompt
    /\ tool = "query"
    /\ outcome.kind = "returned"

\* C34: whatever greeting is configured (None, "", only whitespace, text),
\* the session start makes exactly one greeting: either the supplied text
\* is displayed once or the agent is asked once to generate one, never
\* neither and never both.
C34_ExactlyOneGreeting ==
    greeted => Cardinality(GreetingShown) + Cardinality(GreetingCalls) = 1

\* C36: querychat[key] is the accessor of that name for "chat", "sql",
\* "title" and "df", so that calling it gives what chat(), sql(), title()
\* and df() give in the same state; for any other key it is None and
\* nothing is raised; and the lookup changes nothing of the session.
C36_GetItemTotal ==
    /\ [](obs.kind = "getitem" =>
             /\ obs.key \in Accessors
                   => /\ obs.item = obs.key
                      /\ returns(obs.item) = returns(obs.key)
             /\ obs.key = "sql"
                   => (obs.item # None /\ returns(obs.item).of = "sql"
                         /\ returns(obs.item).value = current_query)
             /\ obs.key = "title"
                   => (obs.item # None /\ returns(obs.item).of = "title"
                         /\ returns(obs.item).value = current_title)
             /\ obs.key = "df"
                   => (obs.item # None /\ returns(obs.item).of = "df"
                         /\ returns(obs.item).value = filtered_df)
             /\ obs.key = "chat"
                   => (obs.item # None /\ returns(obs.item).of = "chat"
                         /\ returns(obs.item).value = TheChat)
             /\ obs.key \notin Accessors => obs.item = None)
    /\ [][obs'.kind = "getitem" =>
             UNCHANGED <<sessionVars, backendVars, callVars, historyVars,
                         readVars>>]_vars

\* the title accessor was looked up by key after a commit
C36_Witness ==
    /\ obs.kind = "getitem"
    /\ obs.key = "title"
    /\ obs.item = "title"
    /\ returns(obs.item).value = "Survivors"
    /\ current_query = Q_SOME

====
